---- MODULE Spec2Model ----
(***************************************************************************)
(* Model of the Chankura exchange connector (gateways/chankura.ts):        *)
(* the signed transport ChankuraHttp, the order entry gateway, the         *)
(* position gateway and the market data gateway, as state machines over    *)
(* the requests in flight and the events emitted on the Evt channels.      *)
(***************************************************************************)
EXTENDS Integers, Sequences, FiniteSets, TLC

VARIABLES
    nonce,      \* ChankuraHttp._nonce
    reqs,       \* every signed request attempt (_postOnce), in issue order
    calls,      \* every top-level post(...) of a gateway, in call order
    updates,    \* events triggered on OrderEntryGateway.OrderUpdate, in order
    posOut,     \* events triggered on PositionGateway.PositionUpdate, in order
    faults,     \* calls whose rejected promise was rethrown by .done()
    thrown,     \* orders whose sendOrder threw synchronously
    oeSince,    \* ChankuraOrderEntryGateway._since (unix seconds)
    now,        \* the wall clock (seconds)
    since,      \* ChankuraMarketDataGateway._since
    gets,       \* every unauthenticated get request, in issue order
    trades,     \* events triggered on MarketDataGateway.MarketTrade, in order
    books,      \* events triggered on MarketDataGateway.MarketData, in order
    exited,     \* the process has ended on an uncaught exception
    timer,      \* the setTimeout of the ChankuraHttp constructor
    conn,       \* per ConnectChanged channel, the statuses triggered on it
    bulk,       \* the values the promises of cancelAllOpenOrders resolved with
    startup,    \* createChankura: its phase, the market list, the tick built
    handlers,   \* MarketTrade.handlers: the listeners, in registration order
    dispatched, \* every MarketTrade.trigger: the handlers at its start, the
                \* handlers it invoked, whether one of them threw
    venue,      \* the venue's trades: the time of each, in order of execution
    inflight    \* per trades request, the response the venue has built for it

vars == <<nonce, reqs, calls, updates, posOut, faults, thrown, oeSince, now,
          since, gets, trades, books, exited, timer, conn, bulk, startup,
          handlers, dispatched, venue, inflight>>

oeVars == <<nonce, reqs, calls, updates, posOut, faults, thrown, oeSince>>
mdVars == <<since, gets, trades, books>>
\* what no request, response or tick of the gateways writes
venueVars == <<venue, inflight>>

evVars == <<timer, conn, bulk, startup, handlers, dispatched, venue, inflight>>

\* ---------------------------------------------------------------- bounds
MaxReqs == 3        \* signed request attempts issued in one run
MaxGets == 3        \* unauthenticated requests issued in one run
MaxNow == 1         \* clock ticks in one run
MaxPolls == 5       \* requests of both kinds in one run that issues both

\* ------------------------------------------------------------- constants
NonceSeed == 1000   \* new Date().valueOf() at construction
Lookback == 60      \* cold-start lookback of the trade poll, seconds

\* ------------------------------------------------------------ vocabulary
undefined == "undefined"
Pending == "pending"
ErrNetwork == "error"          \* request's callback got err (also a timeout)
ErrParse == "unparsable"       \* JSON.parse(body) threw
Failures == {ErrNetwork, ErrParse}

\* A venue message is a text; it is modelled as the sequence of its parts so
\* that the substring test of post can be computed.
StaleText == "Nonce is too small"
MsgStale == <<"tonce invalid:", "Nonce is too small">>
MsgFunds == <<"insufficient funds">>

\* rejectMsg.indexOf(text) > -1
Contains(msg, text) == \E i \in 1..Len(msg) : msg[i] = text

symbol == "btcusd"

\* typeof x.f !== "undefined" on a parsed JSON object
HasField(b, f) == f \in DOMAIN b
\* x.f, which is undefined when the object has no such field
GetField(b, f) == IF f \in DOMAIN b THEN b[f] ELSE undefined
EmptyObject == [k \in {} |-> undefined]

\* ----------------------------------------------------- inputs and bodies
\* Order status reports handed to sendOrder / cancelOrder / replaceOrder: a
\* new order, which has no exchange id yet, and an order known to the venue
\* whose time in force encodeTimeInForce does not support.
OrderA == [orderId |-> "o1", exchangeId |-> undefined, side |-> "Bid", price |-> 50,
           quantity |-> 2, timeInForce |-> "GTC", type |-> "Limit", time |-> 0]
OrderB == [orderId |-> "o2", exchangeId |-> "e1", side |-> "Ask", price |-> 51,
           quantity |-> 1, timeInForce |-> "IOC", type |-> "Limit", time |-> 0]
Orders == {OrderA, OrderB}

\* Parsed JSON bodies the venue may answer with, per endpoint.  A JSON array
\* is the record [items |-> <<...>>].
StaleBody == [message |-> MsgStale]
Fill1 == [id |-> "e1", price |-> "50", volume |-> "1", side |-> "buy"]
Fill2 == [id |-> "e7", price |-> "51", volume |-> "1", side |-> "sell"]
Detail(st) == [id |-> "e1", state |-> st, avg_price |-> "51", volume |-> "2",
               remaining_volume |-> "0", executed_volume |-> "2"]
\* an order detail that carries no state
DetailNoState == [id |-> "e1", avg_price |-> "51", volume |-> "2",
                  remaining_volume |-> "0", executed_volume |-> "2"]
Account1 == [currency |-> "btc", balance |-> "2", locked |-> "1"]
Account2 == [currency |-> "usd", balance |-> "50", locked |-> "0"]

Bodies(op) ==
    CASE op = "send"      -> {StaleBody, [message |-> MsgFunds], [id |-> "x1"],
                              [id |-> "x1", message |-> MsgFunds]}
      [] op = "cancel"    -> {StaleBody, [message |-> MsgFunds], [id |-> "e1"]}
      [] op = "mytrades"  -> {StaleBody, [items |-> <<>>], [items |-> <<Fill1>>],
                              [items |-> <<Fill1, Fill2>>]}
      [] op = "order"     -> {StaleBody, Detail("wait"), Detail("done"),
                              Detail("cancel"), Detail("partial"),
                              DetailNoState}
      [] op = "positions" -> {StaleBody, [accounts |-> <<>>],
                              [accounts |-> <<Account1, Account2>>]}

\* parseFloat on the numeric texts of the bodies above
parseFloat(s) ==
    CASE s = "0" -> 0 [] s = "1" -> 1 [] s = "2" -> 2
      [] s = "50" -> 50 [] s = "51" -> 51 [] OTHER -> -1

\* ------------------------------------------------------------ transport
\* a _postOnce that skips a nonce
NonceAfterSkipping(n) == n + 2

\* a _postOnce that leaves the nonce as it was
NonceAfterStuck(n) == n

\* _postOnce: this._nonce += 1
NonceAfter(n) == n + 1

RECURSIVE NonceAt(_, _)
\* the nonce after k back-to-back calls of _postOnce
NonceAt(n, k) == IF k = 0 THEN n ELSE NonceAt(NonceAfter(n), k - 1)

\* Texts built by concatenation are sequences of their smallest parts, so
\* that two texts are equal exactly when their sequences are.  "<nonce>" is
\* the decimal text of the attempt's tonce, "<query>" is
\* querystring.stringify(msg) and "<digest>" is the hex digest of the payload.
apiKey == "<key>"
baseUrl == "<base>"

\* _postOnce: 'access_key=' + this._apiKey + '&tonce=' + this._nonce + '&'
params == <<"access_key=", apiKey, "&", "tonce=", "<nonce>", "&">>

\* _postOnce: method + "|api/v2" + actionUrl + "|" + params + query
payload(method, actionUrl) ==
    <<method, "|", "api/v2", actionUrl, "|">> \o params \o <<"<query>">>

\* _postOnce: baseUrl + "/" + actionUrl + '?' + params + query
\*            + '&signature' + signature
url(actionUrl) ==
    <<baseUrl, "/", actionUrl, "?">> \o params
        \o <<"<query>", "&", "signature", "<digest>">>

\* _postOnce: the request attempt it hands to doRequest.  parent is the
\* attempt whose stale-nonce response caused this one (0: a first attempt).
postOnce(n, c, method, path, msg, parent) ==
    [call |-> c, method |-> method, path |-> path, msg |-> msg, tonce |-> n,
     payload |-> payload(method, path), url |-> url(path),
     parent |-> parent, outcome |-> [kind |-> Pending]]

\* a post that never retries
NeverStale(body) == FALSE

\* a post that retries on every venue message
AnyMessageStale(body) == HasField(body, "message")

\* post: the test made on a resolved response
IsStaleNonce(body) ==
    HasField(body, "message") /\ Contains(body.message, StaleText)

\* a gateway's call of post: its arguments and the closure of its callback;
\* at is the clock reading when the call was made
NewCall(op, method, path, msg, arg) ==
    [op |-> op, method |-> method, path |-> path, msg |-> msg, arg |-> arg,
     at |-> now, state |-> Pending, resp |-> EmptyObject]

\* post called once per element of cs, back to back, on top of the request
\* log rq and the call log cl
PostAll(rq, cl, cs) ==
    /\ calls' = cl \o cs
    /\ reqs' = rq \o [k \in 1..Len(cs) |->
                        postOnce(NonceAt(nonce, k - 1), Len(cl) + k,
                                 cs[k].method, cs[k].path, cs[k].msg, 0)]
    /\ nonce' = NonceAt(nonce, Len(cs))

PendingReqs == {i \in 1..Len(reqs) : reqs[i].outcome.kind = Pending}

\* new Models.Timestamped(data, t)
Timestamped(data, t) == [data |-> data, time |-> t]

\* ---------------------------------------------------- order entry gateway
Throws == "throws"

encodeSide(side) ==
    CASE side = "Bid" -> "buy" [] side = "Ask" -> "sell" [] OTHER -> ""

encodeTimeInForce(tif, type) ==
    CASE type = "Market" -> "exchange market"
      [] type = "Limit" /\ tif = "FOK" -> "exchange fill-or-kill"
      [] type = "Limit" /\ tif = "GTC" -> "exchange limit"
      [] OTHER -> Throws

\* Number.prototype.toString on the order's price and quantity
toString(n) ==
    CASE n = 1 -> "1" [] n = 2 -> "2" [] n = 50 -> "50" [] n = 51 -> "51"
      [] OTHER -> "NaN"

convertToOrderRequest(o) ==
    [volume |-> toString(o.quantity), price |-> toString(o.price),
     side |-> encodeSide(o.side), market |-> symbol,
     ord_type |-> encodeTimeInForce(o.timeInForce, o.type)]

\* a sendOrder that triggers no latency update
sendOrderNoLatency(o, c) == <<>>

\* the update sendOrder triggers right after the call of post
sendOrderLatency(o, c) ==
    <<[orderId |-> o.orderId, computationalLatency |-> now - o.time, by |-> c]>>

\* the update cancelOrder triggers right after the call of post
cancelOrderLatency(o, c) ==
    <<[orderId |-> o.orderId, computationalLatency |-> now - o.time, by |-> c]>>

\* a sendOrder callback whose rejection carries the venue's id
sendOrderResolvedWithId(o, resp, c) ==
    IF HasField(resp.data, "message")
    THEN <<[orderStatus |-> "Rejected", orderId |-> o.orderId,
            exchangeId |-> GetField(resp.data, "id"),
            rejectMessage |-> resp.data.message, time |-> resp.time, by |-> c]>>
    ELSE <<[orderStatus |-> "Working", orderId |-> o.orderId,
            exchangeId |-> GetField(resp.data, "id"), time |-> resp.time,
            by |-> c]>>

\* sendOrder's callback on the resolved response
sendOrderResolved(o, resp, c) ==
    IF HasField(resp.data, "message")
    THEN <<[orderStatus |-> "Rejected", orderId |-> o.orderId,
            rejectMessage |-> resp.data.message, time |-> resp.time, by |-> c]>>
    ELSE <<[orderStatus |-> "Working", orderId |-> o.orderId,
            exchangeId |-> GetField(resp.data, "id"), time |-> resp.time,
            by |-> c]>>

\* a cancelOrder callback whose rejection is not flagged cancelRejected
cancelOrderResolvedNoFlag(o, resp, c) ==
    IF HasField(resp.data, "message")
    THEN <<[orderStatus |-> "Rejected", orderId |-> o.orderId,
            rejectMessage |-> resp.data.message, time |-> resp.time, by |-> c]>>
    ELSE <<[orderId |-> o.orderId, time |-> resp.time,
            orderStatus |-> "Cancelled", by |-> c]>>

\* cancelOrder's callback on the resolved response
cancelOrderResolved(o, resp, c) ==
    IF HasField(resp.data, "message")
    THEN <<[orderStatus |-> "Rejected", cancelRejected |-> TRUE,
            orderId |-> o.orderId, rejectMessage |-> resp.data.message,
            time |-> resp.time, by |-> c]>>
    ELSE <<[orderId |-> o.orderId, time |-> resp.time,
            orderStatus |-> "Cancelled", by |-> c]>>

\* a _getOrderStatus whose default is Working
_getOrderStatusDefaultWorking(r) ==
    LET st == GetField(r, "state") IN
    CASE st = "cancel" -> "Cancelled"
      [] st = "done" -> "Complete"
      [] OTHER -> "Working"

_getOrderStatus(r) ==
    LET st == GetField(r, "state") IN
    CASE st = "wait" -> "Working"
      [] st = "cancel" -> "Cancelled"
      [] st = "done" -> "Complete"
      [] OTHER -> "Other"

\* a callback that reports the order detail alone, without the fill
orderDetailResolvedDetailOnly(trade, r, c) ==
    <<[exchangeId |-> trade.id,
       lastPrice |-> parseFloat(GetField(r.data, "avg_price")),
       lastQuantity |-> parseFloat(GetField(r.data, "executed_volume")),
       orderStatus |-> _getOrderStatus(r.data),
       averagePrice |-> parseFloat(GetField(r.data, "avg_price")),
       leavesQuantity |-> parseFloat(GetField(r.data, "remaining_volume")),
       cumQuantity |-> parseFloat(GetField(r.data, "executed_volume")),
       quantity |-> parseFloat(GetField(r.data, "volume")),
       by |-> c]>>

\* the callback of the order.json call made for the fill trade
orderDetailResolved(trade, r, c) ==
    <<[exchangeId |-> trade.id,
       lastPrice |-> parseFloat(trade.price),
       lastQuantity |-> parseFloat(trade.volume),
       orderStatus |-> _getOrderStatus(r.data),
       averagePrice |-> parseFloat(GetField(r.data, "avg_price")),
       leavesQuantity |-> parseFloat(GetField(r.data, "remaining_volume")),
       cumQuantity |-> parseFloat(GetField(r.data, "executed_volume")),
       quantity |-> parseFloat(GetField(r.data, "volume")),
       by |-> c]>>

sendCall(o) ==
    NewCall("send", "POST", "orders.json", convertToOrderRequest(o), o)

cancelCall(o) ==
    NewCall("cancel", "POST", "order/delete.json", [id |-> o.exchangeId], o)

\* sendOrder when convertToOrderRequest throws: nothing is posted or emitted
sendOrderThrows(o) ==
    /\ ~exited
    /\ UNCHANGED evVars
    /\ encodeTimeInForce(o.timeInForce, o.type) = Throws
    /\ thrown' = thrown \cup {o.orderId}
    /\ UNCHANGED <<nonce, reqs, calls, updates, posOut, faults, oeSince, now, exited>>
    /\ UNCHANGED mdVars

sendOrder(o) ==
    /\ ~exited
    /\ UNCHANGED evVars
    /\ encodeTimeInForce(o.timeInForce, o.type) # Throws
    /\ Len(reqs) < MaxReqs
    /\ PostAll(reqs, calls, <<sendCall(o)>>)
    /\ updates' = updates \o sendOrderLatency(o, Len(calls) + 1)
    /\ UNCHANGED <<posOut, faults, thrown, oeSince, now, exited>>
    /\ UNCHANGED mdVars

cancelOrder(o) ==
    /\ ~exited
    /\ UNCHANGED evVars
    /\ Len(reqs) < MaxReqs
    /\ PostAll(reqs, calls, <<cancelCall(o)>>)
    /\ updates' = updates \o cancelOrderLatency(o, Len(calls) + 1)
    /\ UNCHANGED <<posOut, faults, thrown, oeSince, now, exited>>
    /\ UNCHANGED mdVars

\* replaceOrder: cancelOrder(replace); sendOrder(replace)
replaceOrder(o) ==
    /\ ~exited
    /\ UNCHANGED evVars
    /\ encodeTimeInForce(o.timeInForce, o.type) # Throws
    /\ Len(reqs) + 1 < MaxReqs
    /\ PostAll(reqs, calls, <<cancelCall(o), sendCall(o)>>)
    /\ updates' = updates \o cancelOrderLatency(o, Len(calls) + 1)
                          \o sendOrderLatency(o, Len(calls) + 2)
    /\ UNCHANGED <<posOut, faults, thrown, oeSince, now, exited>>
    /\ UNCHANGED mdVars

\* replaceOrder when the sendOrder in it throws: the cancel has been posted
replaceOrderThrows(o) ==
    /\ ~exited
    /\ UNCHANGED evVars
    /\ encodeTimeInForce(o.timeInForce, o.type) = Throws
    /\ Len(reqs) < MaxReqs
    /\ PostAll(reqs, calls, <<cancelCall(o)>>)
    /\ updates' = updates \o cancelOrderLatency(o, Len(calls) + 1)
    /\ thrown' = thrown \cup {o.orderId}
    /\ UNCHANGED <<posOut, faults, oeSince, now, exited>>
    /\ UNCHANGED mdVars

\* a reconciliation tick that sets the cursor back by the lookback
downloadOrderStatusesSinceLookback(t) == t - Lookback

\* a reconciliation tick that leaves the cursor as it was
downloadOrderStatusesSinceKept(t) == oeSince

\* downloadOrderStatuses: this._since = moment.utc(), right after the call of
\* post
downloadOrderStatusesSince(t) == t

\* the capability flags of the order entry gateway
cancelsByClientOrderId == FALSE
supportsCancelAllOpenOrders == FALSE

\* a bulk cancel that asks the venue to clear the orders
cancelAllOpenOrdersPosting ==
    /\ ~exited
    /\ UNCHANGED venueVars
    /\ Len(reqs) < MaxReqs
    /\ PostAll(reqs, calls,
               <<NewCall("clear", "POST", "orders/clear.json", EmptyObject,
                         EmptyObject)>>)
    /\ bulk' = Append(bulk, 0)
    /\ UNCHANGED <<updates, posOut, faults, thrown, oeSince, now, exited>>
    /\ UNCHANGED <<timer, conn, startup, handlers, dispatched>>
    /\ UNCHANGED mdVars

\* cancelAllOpenOrders: return Q(0)
cancelAllOpenOrders ==
    /\ ~exited
    /\ UNCHANGED venueVars
    /\ bulk' = Append(bulk, 0)
    /\ UNCHANGED <<timer, conn, startup, handlers, dispatched, now, exited>>
    /\ UNCHANGED oeVars
    /\ UNCHANGED mdVars

\* the reconciliation tick
downloadOrderStatuses ==
    /\ ~exited
    /\ UNCHANGED evVars
    /\ Len(reqs) < MaxReqs
    /\ PostAll(reqs, calls,
               <<NewCall("mytrades", "GET", "trades/my.json",
                         [timestamp |-> oeSince, market |-> symbol],
                         EmptyObject)>>)
    /\ oeSince' = downloadOrderStatusesSince(now)
    /\ UNCHANGED <<updates, posOut, faults, thrown, now, exited>>
    /\ UNCHANGED mdVars

\* --------------------------------------------------------- position gateway
positionsCall ==
    NewCall("positions", "GET", "/members/me.json", EmptyObject, EmptyObject)

\* the callback of the members/me.json call
positionsResolved(res) ==
    LET accounts == GetField(res.data, "accounts") IN
    IF ~HasField(res.data, "accounts") THEN <<>>
    ELSE [k \in 1..Len(accounts) |->
            [amount |-> parseFloat(accounts[k].balance),
             heldAmount |-> parseFloat(accounts[k].locked),
             currency |-> accounts[k].currency]]

\* the position tick
onRefreshPositions ==
    /\ ~exited
    /\ UNCHANGED evVars
    /\ Len(reqs) < MaxReqs
    /\ PostAll(reqs, calls, <<positionsCall>>)
    /\ UNCHANGED <<updates, posOut, faults, thrown, oeSince, now, exited>>
    /\ UNCHANGED mdVars

\* ---------------------------------------------- responses to signed calls
CallOf(i) == reqs[i].call
OpOf(i) == calls[reqs[i].call].op

\* the request log once attempt i has been answered
Answered(i, out) == [reqs EXCEPT ![i].outcome = out]

\* the call log once call c has been resolved with resp / rejected
Resolved(c, resp) == [calls EXCEPT ![c].state = "resolved", ![c].resp = resp]
Rejected(c) == [calls EXCEPT ![c].state = "rejected"]

\* a transport that sends a failed request once more
requestFailsResent(i, f) ==
    /\ ~exited
    /\ UNCHANGED evVars
    /\ i \in PendingReqs
    /\ f \in Failures
    /\ Len(reqs) < MaxReqs
    /\ reqs' = Append(Answered(i, [kind |-> f]),
                      postOnce(nonce, CallOf(i), calls[CallOf(i)].method,
                               calls[CallOf(i)].path, calls[CallOf(i)].msg, i))
    /\ nonce' = NonceAfter(nonce)
    /\ UNCHANGED <<calls, faults, updates, posOut, thrown, oeSince, now, exited>>
    /\ UNCHANGED mdVars

\* a transport that announces Disconnected when a request fails
requestFailsDisconnects(i, f) ==
    /\ ~exited
    /\ UNCHANGED venueVars
    /\ i \in PendingReqs
    /\ f \in Failures
    /\ reqs' = Answered(i, [kind |-> f])
    /\ calls' = Rejected(CallOf(i))
    /\ faults' = faults \cup {<<"post", CallOf(i)>>}
    /\ exited' \in BOOLEAN
    /\ conn' = [conn EXCEPT !.http = Append(@, "Disconnected")]
    /\ UNCHANGED <<nonce, updates, posOut, thrown, oeSince, now, timer, bulk, startup,
                   handlers, dispatched>>
    /\ UNCHANGED mdVars

\* doRequest: the request ends in err (network error, timeout) or its body
\* does not parse: d.reject(err).  Neither post's then nor the gateway's
\* then has a rejection handler, so done() rethrows the error as an uncaught
\* exception, on which the process ends unless its host handles it.
requestFails(i, f) ==
    /\ ~exited
    /\ UNCHANGED evVars
    /\ i \in PendingReqs
    /\ f \in Failures
    /\ reqs' = Answered(i, [kind |-> f])
    /\ calls' = Rejected(CallOf(i))
    /\ faults' = faults \cup {<<"post", CallOf(i)>>}
    /\ exited' \in BOOLEAN
    /\ UNCHANGED <<nonce, updates, posOut, thrown, oeSince, now>>
    /\ UNCHANGED mdVars

\* post: the response is a stale-nonce rejection, post calls itself again
postRetries(i, b) ==
    /\ ~exited
    /\ UNCHANGED evVars
    /\ i \in PendingReqs
    /\ b \in Bodies(OpOf(i))
    /\ IsStaleNonce(b)
    /\ Len(reqs) < MaxReqs
    /\ reqs' = Append(Answered(i, [kind |-> "body", data |-> b]),
                      postOnce(nonce, CallOf(i), calls[CallOf(i)].method,
                               calls[CallOf(i)].path, calls[CallOf(i)].msg, i))
    /\ nonce' = NonceAfter(nonce)
    /\ UNCHANGED <<calls, updates, posOut, faults, thrown, oeSince, now, exited>>
    /\ UNCHANGED mdVars

\* post resolves with the response: the guard shared by the callbacks below
Delivers(i, b, op) ==
    /\ i \in PendingReqs
    /\ OpOf(i) = op
    /\ b \in Bodies(op)
    /\ ~IsStaleNonce(b)

sendOrderThen(i, b) ==
    /\ ~exited
    /\ UNCHANGED evVars
    /\ Delivers(i, b, "send")
    /\ reqs' = Answered(i, [kind |-> "body", data |-> b])
    /\ calls' = Resolved(CallOf(i), Timestamped(b, now))
    /\ updates' = updates \o sendOrderResolved(calls[CallOf(i)].arg,
                                               Timestamped(b, now), CallOf(i))
    /\ UNCHANGED <<nonce, posOut, faults, thrown, oeSince, now, exited>>
    /\ UNCHANGED mdVars

cancelOrderThen(i, b) ==
    /\ ~exited
    /\ UNCHANGED evVars
    /\ Delivers(i, b, "cancel")
    /\ reqs' = Answered(i, [kind |-> "body", data |-> b])
    /\ calls' = Resolved(CallOf(i), Timestamped(b, now))
    /\ updates' = updates \o cancelOrderResolved(calls[CallOf(i)].arg,
                                                 Timestamped(b, now), CallOf(i))
    /\ UNCHANGED <<nonce, posOut, faults, thrown, oeSince, now, exited>>
    /\ UNCHANGED mdVars

\* downloadOrderStatuses' callback: one order.json call per returned fill
myTradesThen(i, b) ==
    /\ ~exited
    /\ UNCHANGED evVars
    /\ Delivers(i, b, "mytrades")
    /\ Len(reqs) + Len(b.items) <= MaxReqs
    /\ PostAll(Answered(i, [kind |-> "body", data |-> b]),
               Resolved(CallOf(i), Timestamped(b, now)),
               [k \in 1..Len(b.items) |->
                  NewCall("order", "GET", "order.json",
                          [id |-> b.items[k].id], b.items[k])])
    /\ UNCHANGED <<updates, posOut, faults, thrown, oeSince, now, exited>>
    /\ UNCHANGED mdVars

orderDetailThen(i, b) ==
    /\ ~exited
    /\ UNCHANGED evVars
    /\ Delivers(i, b, "order")
    /\ reqs' = Answered(i, [kind |-> "body", data |-> b])
    /\ calls' = Resolved(CallOf(i), Timestamped(b, now))
    /\ updates' = updates \o orderDetailResolved(calls[CallOf(i)].arg,
                                                 Timestamped(b, now), CallOf(i))
    /\ UNCHANGED <<nonce, posOut, faults, thrown, oeSince, now, exited>>
    /\ UNCHANGED mdVars

positionsThen(i, b) ==
    /\ ~exited
    /\ UNCHANGED evVars
    /\ Delivers(i, b, "positions")
    /\ reqs' = Answered(i, [kind |-> "body", data |-> b])
    /\ calls' = Resolved(CallOf(i), Timestamped(b, now))
    /\ posOut' = posOut \o positionsResolved(Timestamped(b, now))
    /\ UNCHANGED <<nonce, updates, faults, thrown, oeSince, now, exited>>
    /\ UNCHANGED mdVars

\* ------------------------------------------------------------------- Evt
MaxHandlers == 2

\* the listeners a consumer registers: two that return, one that throws,
\* one that unregisters itself, one that unregisters h1, one that
\* registers h2
Listeners == {"h1", "h2", "thrower", "leaver", "remover", "joiner"}

\* Evt.on: this.handlers.push(handler)
on(hs, h) == Append(hs, h)

\* Evt.off: this.handlers = this.handlers.filter(h => h !== handler)
off(hs, h) == SelectSeq(hs, LAMBDA x : x # h)

\* Evt.trigger from index i on (1-based): the loop reads this.handlers anew
\* on every iteration and has no try/catch
RECURSIVE trigger(_, _, _)
trigger(hs, i, inv) ==
    IF i > Len(hs)
    THEN [handlers |-> hs, inv |-> inv, threw |-> FALSE]
    ELSE LET h == hs[i]
             inv2 == Append(inv, h)
         IN  CASE h = "thrower" -> [handlers |-> hs, inv |-> inv2, threw |-> TRUE]
               [] h = "leaver"  -> trigger(off(hs, "leaver"), i + 1, inv2)
               [] h = "remover" -> trigger(off(hs, "h1"), i + 1, inv2)
               [] h = "joiner"  -> trigger(on(hs, "h2"), i + 1, inv2)
               [] OTHER         -> trigger(hs, i + 1, inv2)

\* ------------------------------------------------------ market data gateway
Trade1 == [id |-> 1, price |-> "50", volume |-> "1", created_at |-> "t1",
           side |-> "buy"]
Trade2 == [id |-> 2, price |-> "51", volume |-> "2", created_at |-> "t2",
           side |-> "sell"]
Level1 == [price |-> "50", volume |-> "2"]
Level2 == [price |-> "51", volume |-> "1"]

GetBodies(path) ==
    CASE path = "trades.json" ->
            {[items |-> <<>>], [items |-> <<Trade1>>],
             [items |-> <<Trade1, Trade2>>]}
      [] path = "order_book.json" ->
            {[bids |-> <<Level1>>, asks |-> <<Level2>>],
             [bids |-> <<>>, asks |-> <<Level2, Level1>>]}

decodeSide(side) ==
    CASE side = "buy" -> "Bid" [] side = "sell" -> "Ask" [] OTHER -> "Unknown"

\* moment(created_at).toDate() on the texts of the bodies above
toDate(text) ==
    CASE text = "t0" -> 0 [] text = "t1" -> 1 [] text = "t2" -> 2
      [] text = "t3" -> 3 [] OTHER -> -1

ConvertToMarketSide(level) ==
    [price |-> parseFloat(level.price), size |-> parseFloat(level.volume)]

ConvertToMarketSides(levels) ==
    [k \in 1..Len(levels) |-> ConvertToMarketSide(levels[k])]

\* get: the request it hands to doRequest.  cold records whether the cursor
\* was unset when the request was issued.
get(path, qs, cold) ==
    [path |-> path, qs |-> qs, cold |-> cold, outcome |-> [kind |-> Pending]]

PendingGets == {i \in 1..Len(gets) : gets[i].outcome.kind = Pending}

\* the get log once request i has been answered; seq is the position of the
\* answer among all answers
GetAnswered(i, kind, b) ==
    [gets EXCEPT ![i].outcome =
        [kind |-> kind, data |-> b, time |-> now,
         seq |-> Len(gets) - Cardinality(PendingGets) + 1]]

\* downloadMarketTrades' query: the cursor, or the lookback when it is unset
tradesQuery(s) ==
    [market |-> symbol,
     timestamp |-> IF s = <<>> THEN now - Lookback ELSE s[1]]

bookQuery == [market |-> symbol, bids_limit |-> 5, asks_limit |-> 5]

\* the trade tick
downloadMarketTrades ==
    /\ ~exited
    /\ UNCHANGED evVars
    /\ Len(gets) < MaxGets
    /\ gets' = Append(gets, get("trades.json", tradesQuery(since), since = <<>>))
    /\ UNCHANGED <<since, trades, books, now, exited>>
    /\ UNCHANGED oeVars

\* the order book tick
downloadMarketData ==
    /\ ~exited
    /\ UNCHANGED evVars
    /\ Len(gets) < MaxGets
    /\ gets' = Append(gets, get("order_book.json", bookQuery, since = <<>>))
    /\ UNCHANGED <<since, trades, books, now, exited>>
    /\ UNCHANGED oeVars

\* an onTrades that tags a batch by the cursor at the time its tick fired
onTradesEventsTaggedAtTick(items, s, i) ==
    [k \in 1..Len(items) |->
        [price |-> parseFloat(items[k].price),
         size |-> parseFloat(items[k].volume),
         time |-> toDate(items[k].created_at),
         make_side |-> decodeSide(items[k].side),
         isFirstObservedBatch |-> gets[i].cold,
         id |-> items[k].id, req |-> i]]

\* onTrades: the events of one batch, triggered in the order of the response
onTradesEvents(items, s, i) ==
    [k \in 1..Len(items) |->
        [price |-> parseFloat(items[k].price),
         size |-> parseFloat(items[k].volume),
         time |-> toDate(items[k].created_at),
         make_side |-> decodeSide(items[k].side),
         isFirstObservedBatch |-> (s = <<>>),
         id |-> items[k].id, req |-> i]]

\* an onTrades that leaves the cursor as it was
onTradesSinceKept(t) == since

\* onTrades: this._since = moment().unix()
onTradesSince(t) == <<t>>

\* _.forEach(trades.data, ... this.MarketTrade.trigger(mt)) from item k on,
\* with the handler list hs and the dispatches log made so far: the handler
\* list it leaves, the number of events triggered, the dispatches, and
\* whether a listener's exception ended the loop
RECURSIVE forEachTrigger(_, _, _, _)
forEachTrigger(evs, k, hs, log) ==
    IF k > Len(evs)
    THEN [handlers |-> hs, n |-> Len(evs), log |-> log, threw |-> FALSE]
    ELSE LET d == trigger(hs, 1, <<>>)
             rec == [start |-> hs, inv |-> d.inv, threw |-> d.threw]
         IN  IF d.threw
             THEN [handlers |-> d.handlers, n |-> k, log |-> Append(log, rec),
                   threw |-> TRUE]
             ELSE forEachTrigger(evs, k + 1, d.handlers, Append(log, rec))

\* onTrades, the callback of the trades request; an exception of a listener
\* leaves it before the cursor is set and is rethrown by .done()
onTrades(i, b) ==
    /\ ~exited
    /\ UNCHANGED venueVars
    /\ i \in PendingGets
    /\ gets[i].path = "trades.json"
    /\ gets' = GetAnswered(i, "body", b)
    /\ LET evs == onTradesEvents(b.items, since, i)
           r == forEachTrigger(evs, 1, handlers, <<>>)
       IN  /\ trades' = trades \o SubSeq(evs, 1, r.n)
           /\ handlers' = r.handlers
           /\ dispatched' = dispatched \o r.log
           /\ IF r.threw
              THEN /\ since' = since
                   /\ faults' = faults \cup {<<"get", i>>}
                   /\ exited' \in BOOLEAN
              ELSE /\ since' = onTradesSince(now)
                   /\ UNCHANGED <<faults, exited>>
    /\ UNCHANGED <<books, now, timer, conn, bulk, startup>>
    /\ UNCHANGED <<nonce, reqs, calls, updates, posOut, thrown, oeSince>>

\* an onMarketData that keeps the levels of the book it emitted before
onMarketDataMerged(i, b) ==
    /\ ~exited
    /\ UNCHANGED evVars
    /\ i \in PendingGets
    /\ gets[i].path = "order_book.json"
    /\ b \in GetBodies("order_book.json")
    /\ gets' = GetAnswered(i, "body", b)
    /\ books' = Append(books,
          [bids |-> ConvertToMarketSides(b.bids)
                      \o (IF books = <<>> THEN <<>> ELSE books[Len(books)].bids),
           asks |-> ConvertToMarketSides(b.asks)
                      \o (IF books = <<>> THEN <<>> ELSE books[Len(books)].asks),
           time |-> now, req |-> i])
    /\ UNCHANGED <<since, trades, now, exited>>
    /\ UNCHANGED oeVars

onMarketData(i, b) ==
    /\ ~exited
    /\ UNCHANGED evVars
    /\ i \in PendingGets
    /\ gets[i].path = "order_book.json"
    /\ b \in GetBodies("order_book.json")
    /\ gets' = GetAnswered(i, "body", b)
    /\ books' = Append(books, [bids |-> ConvertToMarketSides(b.bids),
                               asks |-> ConvertToMarketSides(b.asks),
                               time |-> now, req |-> i])
    /\ UNCHANGED <<since, trades, now, exited>>
    /\ UNCHANGED oeVars

\* doRequest rejects an unauthenticated request: done() rethrows the error
\* as an uncaught exception
getFails(i, f) ==
    /\ ~exited
    /\ UNCHANGED evVars
    /\ i \in PendingGets
    /\ f \in Failures
    /\ gets' = GetAnswered(i, f, EmptyObject)
    /\ faults' = faults \cup {<<"get", i>>}
    /\ exited' \in BOOLEAN
    /\ UNCHANGED <<since, trades, books, now>>
    /\ UNCHANGED <<nonce, reqs, calls, updates, posOut, thrown, oeSince>>

\* ------------------------------------------------------------ the venue
MaxVenue == 2

\* created_at of a trade executed at second t
createdAt(t) ==
    CASE t = 0 -> "t0" [] t = 1 -> "t1" [] t = 2 -> "t2" [] OTHER -> "t3"

\* the ChankuraMarketTrade of the venue's k-th trade
VenueTrade(k) ==
    [id |-> k, price |-> "50", volume |-> "1",
     created_at |-> createdAt(venue[k]), side |-> "buy"]

\* trades.json?timestamp=t: the trades that have occurred since t
RECURSIVE TradesSince(_, _)
TradesSince(t, k) ==
    IF k > Len(venue) THEN <<>>
    ELSE (IF venue[k] >= t THEN <<VenueTrade(k)>> ELSE <<>>)
            \o TradesSince(t, k + 1)

\* a trade is executed on the venue
venueTrade ==
    /\ ~exited
    /\ Len(venue) < MaxVenue
    /\ venue' = Append(venue, now)
    /\ UNCHANGED <<inflight, timer, conn, bulk, startup, handlers, dispatched,
                   now, exited>>
    /\ UNCHANGED oeVars
    /\ UNCHANGED mdVars

\* the venue builds its response to trades request i
venueBuilds(i) ==
    /\ ~exited
    /\ i \in PendingGets
    /\ gets[i].path = "trades.json"
    /\ \A k \in 1..Len(inflight) : inflight[k].get # i
    /\ inflight' = Append(inflight,
                          [get |-> i, items |-> TradesSince(gets[i].qs.timestamp, 1)])
    /\ UNCHANGED <<venue, timer, conn, bulk, startup, handlers, dispatched,
                   now, exited>>
    /\ UNCHANGED oeVars
    /\ UNCHANGED mdVars

\* a consumer registers a listener of MarketTrade
MarketTradeOn(h) ==
    /\ ~exited
    /\ UNCHANGED venueVars
    /\ h \in Listeners
    /\ Len(handlers) < MaxHandlers
    /\ handlers' = on(handlers, h)
    /\ UNCHANGED <<timer, conn, bulk, startup, dispatched, now, exited>>
    /\ UNCHANGED oeVars
    /\ UNCHANGED mdVars

\* a consumer unregisters a listener of MarketTrade
MarketTradeOff(h) ==
    /\ ~exited
    /\ UNCHANGED venueVars
    /\ \E k \in 1..Len(handlers) : handlers[k] = h
    /\ handlers' = off(handlers, h)
    /\ UNCHANGED <<timer, conn, bulk, startup, dispatched, now, exited>>
    /\ UNCHANGED oeVars
    /\ UNCHANGED mdVars

\* ------------------------------------------------------------------ clock
Advance ==
    /\ ~exited
    /\ UNCHANGED evVars
    /\ now < MaxNow
    /\ now' = now + 1
    /\ UNCHANGED oeVars
    /\ UNCHANGED mdVars
    /\ UNCHANGED exited

\* ------------------------------------------------------------ connectivity
Connected == "Connected"

\* a connector whose market data gateway registers no relay
httpListenersNoMd == <<"oe">>

\* the gateways whose constructor registers a relay on the transport's
\* ConnectChanged, in the order in which Chankura's constructor builds them;
\* ChankuraPositionGateway has no ConnectChanged and registers none
httpListeners == <<"oe", "md">>

RECURSIVE relayed(_, _, _)
\* Evt.trigger on the transport's channel: each relay in turn triggers the
\* status on the channel of its own gateway
relayed(c, hs, s) ==
    IF hs = <<>> THEN c
    ELSE relayed([c EXCEPT ![Head(hs)] = Append(@, s)], Tail(hs), s)

\* the callback of the constructor's setTimeout(..., 10)
connectTimer ==
    /\ ~exited
    /\ UNCHANGED venueVars
    /\ timer = "pending"
    /\ timer' = "fired"
    /\ conn' = relayed([conn EXCEPT !.http = Append(@, Connected)],
                       httpListeners, Connected)
    /\ UNCHANGED <<now, exited, bulk, startup, handlers, dispatched>>
    /\ UNCHANGED oeVars
    /\ UNCHANGED mdVars

\* -------------------------------------------------------------- startup
MaxMarkets == 2

\* entries of the venue's market list (SymbolDetails)
Markets ==
    {[id |-> symbol, price_precision |-> 2],
     [id |-> symbol, price_precision |-> 3],
     [id |-> "ethusd", price_precision |-> 2]}

MarketLists == UNION {[1..n -> Markets] : n \in 0..MaxMarkets}

\* the indices of the entries with s.id === symbol.symbol
Matching(list) == {k \in 1..Len(list) : list[k].id = symbol}

\* minTickIncrement is 10 ** (-1 * s.price_precision); kept as its
\* reciprocal, the number of ticks in one unit of price
ticksPerUnit(s) == 10 ^ s.price_precision

\* new Chankura(...): the transport with its timer, then the gateways,
\* whose constructors issue their first requests
Chankura(k) ==
    /\ startup' = [startup EXCEPT !.phase = "built", !.entry = k,
                       !.ticks = ticksPerUnit(startup.list[k])]
    /\ nonce' = NonceAt(NonceSeed, 1)
    /\ calls' = <<positionsCall>>
    /\ reqs' = <<postOnce(NonceSeed, 1, positionsCall.method,
                          positionsCall.path, positionsCall.msg, 0)>>
    /\ gets' = <<get("order_book.json", bookQuery, TRUE),
                 get("trades.json", tradesQuery(<<>>), TRUE)>>
    /\ timer' = "pending"

\* a resolution that falls back to the first entry of the list
createChankuraDefaulting ==
    /\ ~exited
    /\ UNCHANGED venueVars
    /\ startup.phase = "resolving"
    /\ LET m == Matching(startup.list) IN
          IF m # {}
          THEN Chankura(CHOOSE k \in m : \A j \in m : k <= j)
          ELSE IF startup.list # <<>>
               THEN Chankura(1)
               ELSE /\ startup' = [startup EXCEPT !.phase = "failed"]
                    /\ UNCHANGED <<nonce, calls, reqs, gets, timer>>
    /\ UNCHANGED <<updates, posOut, faults, thrown, oeSince, now, since,
                   trades, books, exited, conn, bulk, handlers, dispatched>>

\* createChankura, once the market list has arrived
createChankura ==
    /\ ~exited
    /\ UNCHANGED venueVars
    /\ startup.phase = "resolving"
    /\ LET m == Matching(startup.list) IN
          IF m # {}
          THEN Chankura(CHOOSE k \in m : \A j \in m : k <= j)
          ELSE /\ startup' = [startup EXCEPT !.phase = "failed"]
               /\ UNCHANGED <<nonce, calls, reqs, gets, timer>>
    /\ UNCHANGED <<updates, posOut, faults, thrown, oeSince, now, since,
                   trades, books, exited, conn, bulk, handlers, dispatched>>

\* ------------------------------------------------------- specifications
\* The state once the Chankura constructor has returned: the market data
\* gateway has issued its first two requests, the position gateway its
\* first signed call.
Init ==
    /\ now = 0
    /\ nonce = NonceAt(NonceSeed, 1)
    /\ calls = <<positionsCall>>
    /\ reqs = <<postOnce(NonceSeed, 1, positionsCall.method, positionsCall.path,
                         positionsCall.msg, 0)>>
    /\ updates = <<>>
    /\ posOut = <<>>
    /\ faults = {}
    /\ thrown = {}
    /\ oeSince = 0
    /\ since = <<>>
    /\ gets = <<get("order_book.json", bookQuery, TRUE),
                get("trades.json", tradesQuery(<<>>), TRUE)>>
    /\ trades = <<>>
    /\ books = <<>>
    /\ exited = FALSE
    /\ timer = "pending"
    /\ conn = [http |-> <<>>, oe |-> <<>>, md |-> <<>>]
    /\ bulk = <<>>
    /\ startup = [phase |-> "built", entry |-> 1, ticks |-> 100,
                  list |-> <<[id |-> symbol, price_precision |-> 2]>>]
    /\ handlers = <<>>
    /\ dispatched = <<>>
    /\ venue = <<>>
    /\ inflight = <<>>

\* The state when createChankura has received the market list: nothing is
\* constructed, so there is no transport, no timer and no request.
InitStartup ==
    /\ now = 0
    /\ nonce = 0
    /\ calls = <<>>
    /\ reqs = <<>>
    /\ updates = <<>>
    /\ posOut = <<>>
    /\ faults = {}
    /\ thrown = {}
    /\ oeSince = 0
    /\ since = <<>>
    /\ gets = <<>>
    /\ trades = <<>>
    /\ books = <<>>
    /\ exited = FALSE
    /\ timer = "none"
    /\ conn = [http |-> <<>>, oe |-> <<>>, md |-> <<>>]
    /\ bulk = <<>>
    /\ \E l \in MarketLists :
          startup = [phase |-> "resolving", entry |-> 0, ticks |-> 0, list |-> l]
    /\ handlers = <<>>
    /\ dispatched = <<>>
    /\ venue = <<>>
    /\ inflight = <<>>

\* the intervals and the callbacks exist once the connector is built
Built == startup.phase = "built"

\* the first trades request with the listeners of its channel
NextListeners ==
    \/ \E h \in Listeners : MarketTradeOn(h)
    \/ \E h \in Listeners : MarketTradeOff(h)
    \/ \E i \in PendingGets : \E b \in GetBodies(gets[i].path) : onTrades(i, b)

SpecListeners == Init /\ [][NextListeners]_vars

\* the trade poller against a venue that answers every request with the
\* trades since the timestamp asked for
NextVenue ==
    \/ venueTrade
    \/ \E i \in PendingGets : venueBuilds(i)
    \/ downloadMarketTrades
    \/ \E k \in 1..Len(inflight) :
          onTrades(inflight[k].get, [items |-> inflight[k].items])
    \/ Advance

SpecVenue == Init /\ [][NextVenue]_vars

\* startup, then the pollers of the connector that was built
NextStartup ==
    \/ createChankura
    \/ (Built /\ connectTimer)
    \/ (Built /\ onRefreshPositions)
    \/ (Built /\ \E i \in PendingReqs, f \in Failures : requestFails(i, f))
    \/ (Built /\ \E i \in PendingReqs : \E b \in Bodies(OpOf(i)) : postRetries(i, b))
    \/ (Built /\ \E i \in PendingReqs : \E b \in Bodies(OpOf(i)) : positionsThen(i, b))

SpecStartup == InitStartup /\ [][NextStartup]_vars

\* the signed transport with the gateways that call it
Next ==
    \/ \E o \in Orders : sendOrder(o)
    \/ \E o \in Orders : sendOrderThrows(o)
    \/ \E o \in Orders : cancelOrder(o)
    \/ \E o \in Orders : replaceOrder(o)
    \/ \E o \in Orders : replaceOrderThrows(o)
    \/ downloadOrderStatuses
    \/ onRefreshPositions
    \/ \E i \in PendingReqs, f \in Failures : requestFails(i, f)
    \/ \E i \in PendingReqs : \E b \in Bodies(OpOf(i)) : postRetries(i, b)
    \/ \E i \in PendingReqs : \E b \in Bodies(OpOf(i)) : sendOrderThen(i, b)
    \/ \E i \in PendingReqs : \E b \in Bodies(OpOf(i)) : cancelOrderThen(i, b)
    \/ \E i \in PendingReqs : \E b \in Bodies(OpOf(i)) : myTradesThen(i, b)
    \/ \E i \in PendingReqs : \E b \in Bodies(OpOf(i)) : orderDetailThen(i, b)
    \/ \E i \in PendingReqs : \E b \in Bodies(OpOf(i)) : positionsThen(i, b)

\* No step of the transport or of the callbacks above branches on the clock,
\* which Spec holds still; SpecMD, whose cursor is a clock reading, moves it.
Spec == Init /\ [][Next]_vars

\* the market data gateway, which shares no state with the signed calls
NextMD ==
    \/ downloadMarketTrades
    \/ downloadMarketData
    \/ \E i \in PendingGets : \E b \in GetBodies(gets[i].path) : onTrades(i, b)
    \/ \E i \in PendingGets : \E b \in GetBodies(gets[i].path) : onMarketData(i, b)
    \/ \E i \in PendingGets, f \in Failures : getFails(i, f)
    \/ Advance

SpecMD == Init /\ [][NextMD]_vars

\* the reconciliation and position pollers with the clock
NextRecon ==
    \/ downloadOrderStatuses
    \/ \E i \in PendingReqs, f \in Failures : requestFails(i, f)
    \/ \E i \in PendingReqs : \E b \in Bodies(OpOf(i)) : postRetries(i, b)
    \/ \E i \in PendingReqs : \E b \in Bodies(OpOf(i)) : myTradesThen(i, b)
    \/ \E i \in PendingReqs : \E b \in Bodies(OpOf(i)) : orderDetailThen(i, b)
    \/ \E i \in PendingReqs : \E b \in Bodies(OpOf(i)) : positionsThen(i, b)
    \/ Advance

SpecRecon == Init /\ [][NextRecon]_vars

\* the two pollers that keep a cursor, side by side on one clock; the order
\* book request and the position request of the constructor stay in flight.
\* MaxPolls bounds the requests issued, signed and not, in one run
NextCursors ==
    \/ (downloadOrderStatuses /\ Len(reqs') + Len(gets') <= MaxPolls)
    \/ (downloadMarketTrades /\ Len(reqs') + Len(gets') <= MaxPolls)
    \/ \E i \in PendingReqs, f \in Failures :
          (OpOf(i) \in {"mytrades", "order"} /\ requestFails(i, f))
    \/ \E i \in PendingReqs : \E b \in Bodies(OpOf(i)) :
          (/\ OpOf(i) \in {"mytrades", "order"}
           /\ postRetries(i, b)
           /\ Len(reqs') + Len(gets') <= MaxPolls)
    \/ \E i \in PendingReqs : \E b \in Bodies(OpOf(i)) :
          (myTradesThen(i, b) /\ Len(reqs') + Len(gets') <= MaxPolls)
    \/ \E i \in PendingReqs : \E b \in Bodies(OpOf(i)) : orderDetailThen(i, b)
    \/ \E i \in PendingGets : \E b \in GetBodies(gets[i].path) : onTrades(i, b)
    \/ \E i \in PendingGets, f \in Failures :
          (gets[i].path = "trades.json" /\ getFails(i, f))
    \/ Advance

SpecCursors == Init /\ [][NextCursors]_vars

\* the transport under signed and unauthenticated requests at once, the
\* latter those of the trade poller; the clock is held still, for no step of
\* post, get or doRequest reads it
NextTransport ==
    \/ (downloadOrderStatuses /\ Len(reqs') + Len(gets') <= MaxPolls)
    \/ (downloadMarketTrades /\ Len(reqs') + Len(gets') <= MaxPolls)
    \/ \E i \in PendingReqs, f \in Failures : requestFails(i, f)
    \/ \E i \in PendingReqs : \E b \in Bodies(OpOf(i)) :
          (postRetries(i, b) /\ Len(reqs') + Len(gets') <= MaxPolls)
    \/ \E i \in PendingReqs : \E b \in Bodies(OpOf(i)) :
          (myTradesThen(i, b) /\ Len(reqs') + Len(gets') <= MaxPolls)
    \/ \E i \in PendingReqs : \E b \in Bodies(OpOf(i)) : orderDetailThen(i, b)
    \/ \E i \in PendingReqs : \E b \in Bodies(OpOf(i)) : positionsThen(i, b)
    \/ \E i \in PendingGets : \E b \in GetBodies(gets[i].path) : onTrades(i, b)
    \/ \E i \in PendingGets, f \in Failures : getFails(i, f)

SpecTransport == Init /\ [][NextTransport]_vars

\* the connector from its construction on: the timer of the transport next
\* to the polls and their failures
NextConnect ==
    \/ connectTimer
    \/ downloadOrderStatuses
    \/ \E i \in PendingReqs, f \in Failures : requestFails(i, f)
    \/ \E i \in PendingReqs : \E b \in Bodies(OpOf(i)) : postRetries(i, b)
    \/ \E i \in PendingReqs : \E b \in Bodies(OpOf(i)) : myTradesThen(i, b)
    \/ \E i \in PendingReqs : \E b \in Bodies(OpOf(i)) : positionsThen(i, b)
    \/ \E i \in PendingGets, f \in Failures : getFails(i, f)

SpecConnect == Init /\ [][NextConnect]_vars

\* the order entry gateway under the calls of its user; MaxReqs bounds the
\* signed attempts and the bulk cancels together
NextEntry ==
    \/ \E o \in Orders : sendOrder(o)
    \/ \E o \in Orders : sendOrderThrows(o)
    \/ \E o \in Orders : cancelOrder(o)
    \/ \E o \in Orders : replaceOrder(o)
    \/ \E o \in Orders : replaceOrderThrows(o)
    \/ (cancelAllOpenOrders /\ Len(bulk') + Len(reqs') <= MaxReqs)
    \/ \E i \in PendingReqs, f \in Failures : requestFails(i, f)
    \/ \E i \in PendingReqs : \E b \in Bodies(OpOf(i)) : postRetries(i, b)
    \/ \E i \in PendingReqs : \E b \in Bodies(OpOf(i)) : sendOrderThen(i, b)
    \/ \E i \in PendingReqs : \E b \in Bodies(OpOf(i)) : cancelOrderThen(i, b)

SpecEntry == Init /\ [][NextEntry]_vars

\* ----------------------------------------------------------- properties
\* what the properties read off the logs
AttemptsOf(c) == {i \in 1..Len(reqs) : reqs[i].call = c}
RetriesOf(i) == {j \in 1..Len(reqs) : reqs[j].parent = i}
CarriesStaleText(b) ==
    "message" \in DOMAIN b /\ \E k \in 1..Len(b.message) : b.message[k] = StaleText
AnsweredStale(i) ==
    reqs[i].outcome.kind = "body" /\ CarriesStaleText(reqs[i].outcome.data)
AnsweredOther(i) ==
    reqs[i].outcome.kind = "body" /\ ~CarriesStaleText(reqs[i].outcome.data)
HasStatus(u) == "orderStatus" \in DOMAIN u
LatencyOnly(u) == DOMAIN u = {"orderId", "computationalLatency", "by"}
StatusBy(c) == {j \in 1..Len(updates) : updates[j].by = c /\ HasStatus(updates[j])}
LatencyBy(c) == {j \in 1..Len(updates) : updates[j].by = c /\ LatencyOnly(updates[j])}
CallsOf(ops) == {c \in 1..Len(calls) : calls[c].op \in ops}

\* C1: the tonce values of the signed request attempts, taken in the order
\* the attempts are issued, strictly increase; no two attempts share a tonce.
C1_TonceStrictlyIncreasing ==
    \A i, j \in 1..Len(reqs) : i < j => reqs[i].tonce < reqs[j].tonce

\* C1 witness: three attempts of two different callers, one of them a
\* stale-nonce retry, issued while an earlier attempt is still unanswered.
C1_Witness ==
    /\ Len(reqs) >= 3
    /\ \E i, j \in 1..Len(reqs) :
          /\ i < j
          /\ reqs[i].outcome.kind = Pending
          /\ reqs[j].parent # 0
          /\ OpOf(i) # OpOf(j)

\* C2: a signed attempt answered with a stale-nonce message is followed by
\* exactly one further attempt made for that answer, with the same method,
\* path and body and a greater tonce, and the call is never resolved with
\* the stale answer.
C2_StaleRetriedOnce ==
    \A i \in 1..Len(reqs) :
        AnsweredStale(i) =>
            /\ Cardinality(RetriesOf(i)) = 1
            /\ \A j \in RetriesOf(i) :
                  /\ j > i
                  /\ reqs[j].call = reqs[i].call
                  /\ reqs[j].method = reqs[i].method
                  /\ reqs[j].path = reqs[i].path
                  /\ reqs[j].msg = reqs[i].msg
                  /\ reqs[j].tonce > reqs[i].tonce
            /\ calls[CallOf(i)].state = "resolved" =>
                  ~CarriesStaleText(calls[CallOf(i)].resp.data)

\* C2 witness: a stale answer whose retry has been answered and delivered.
C2_Witness ==
    \E i \in 1..Len(reqs) :
        /\ AnsweredStale(i)
        /\ \E j \in RetriesOf(i) : AnsweredOther(j)
        /\ calls[CallOf(i)].state = "resolved"

\* C3: a call whose attempts were answered stale k times and then with
\* another response is resolved with that response after exactly k + 1
\* attempts: the attempt answered otherwise is the call's last and is not
\* retried.
C3_ResolvesAfterStale ==
    \A c \in 1..Len(calls) :
        \A i \in AttemptsOf(c) :
            AnsweredOther(i) =>
                /\ calls[c].state = "resolved"
                /\ calls[c].resp.data = reqs[i].outcome.data
                /\ RetriesOf(i) = {}
                /\ \A j \in AttemptsOf(c) : j <= i
                /\ \A j \in AttemptsOf(c) \ {i} : AnsweredStale(j)
                /\ Cardinality(AttemptsOf(c)) =
                      Cardinality({j \in AttemptsOf(c) : AnsweredStale(j)}) + 1

\* C3 witness: a call resolved after two stale answers, by its third attempt.
C3_Witness ==
    \E c \in 1..Len(calls) :
        /\ calls[c].state = "resolved"
        /\ Cardinality({j \in AttemptsOf(c) : AnsweredStale(j)}) = 2
        /\ Cardinality(AttemptsOf(c)) = 3

\* C4: every Working or Rejected update of a sendOrder comes after the
\* latency-only update of the same sendOrder, for the same order.
C4_LatencyBeforeOutcome ==
    \A j \in 1..Len(updates) :
        (/\ HasStatus(updates[j])
         /\ calls[updates[j].by].op = "send"
         /\ updates[j].orderStatus \in {"Working", "Rejected"}) =>
            \E i \in 1..(j - 1) :
                /\ LatencyOnly(updates[i])
                /\ updates[i].by = updates[j].by
                /\ updates[i].orderId = updates[j].orderId

\* C4 witness: a sendOrder answered Working while another call's request,
\* issued before it, is still unanswered.
C4_Witness ==
    \E j \in 1..Len(updates) :
        /\ HasStatus(updates[j])
        /\ calls[updates[j].by].op = "send"
        /\ updates[j].orderStatus = "Working"
        /\ \E i \in PendingReqs : CallOf(i) < updates[j].by

\* C5: every sendOrder and cancelOrder whose signed call has ended, also
\* in a network error, a timeout or an unparsable body, has produced an
\* update carrying a status for its order, and no fault was thrown for it.
C5_EveryIntentGetsStatus ==
    \A c \in CallsOf({"send", "cancel"}) :
        calls[c].state # Pending =>
            /\ StatusBy(c) # {}
            /\ <<"post", c>> \notin faults

\* C6: a cancelOrder whose report has no exchange id issues no request to
\* the venue (and so consumes no nonce).
C6_NoCancelWithoutExchangeId ==
    \A i \in 1..Len(reqs) :
        ~(OpOf(i) = "cancel" /\ calls[CallOf(i)].arg.exchangeId = undefined)

\* C7: a sendOrder whose call resolved with a body that has a message has
\* emitted exactly one status update: Rejected, with the venue's message
\* and no exchange id; one whose body has no message has emitted exactly
\* one: Working, with the venue's id; an unresolved one has emitted none.
C7_SubmitOutcome ==
    \A c \in CallsOf({"send"}) :
        IF calls[c].state = "resolved"
        THEN /\ Cardinality(StatusBy(c)) = 1
             /\ \A j \in StatusBy(c) :
                   LET u == updates[j]
                       b == calls[c].resp.data
                   IN  /\ u.orderId = calls[c].arg.orderId
                       /\ IF "message" \in DOMAIN b
                          THEN /\ u.orderStatus = "Rejected"
                               /\ u.rejectMessage = b.message
                               /\ "exchangeId" \notin DOMAIN u
                          ELSE /\ u.orderStatus = "Working"
                               /\ "id" \in DOMAIN b
                               /\ u.exchangeId = b.id
                               /\ "rejectMessage" \notin DOMAIN u
        ELSE StatusBy(c) = {}

\* C7 witness: one sendOrder rejected by a body with a message and an id,
\* another accepted.
C7_Witness ==
    \E c, d \in CallsOf({"send"}) :
        /\ calls[c].state = "resolved"
        /\ calls[d].state = "resolved"
        /\ DOMAIN calls[c].resp.data = {"id", "message"}
        /\ DOMAIN calls[d].resp.data = {"id"}

\* C8: a cancelOrder emits one latency-only update and, once its call has
\* resolved, exactly one more update, after the first: Rejected with
\* cancelRejected and the venue's message when the body has a message,
\* Cancelled otherwise.
C8_CancelTwoUpdates ==
    \A c \in CallsOf({"cancel"}) :
        /\ Cardinality(LatencyBy(c)) = 1
        /\ \A j \in 1..Len(updates) :
              updates[j].by = c => j \in LatencyBy(c) \cup StatusBy(c)
        /\ IF calls[c].state = "resolved"
           THEN /\ Cardinality(StatusBy(c)) = 1
                /\ \A j \in StatusBy(c) :
                      LET u == updates[j]
                          b == calls[c].resp.data
                      IN  /\ \A i \in LatencyBy(c) : i < j
                          /\ u.orderId = calls[c].arg.orderId
                          /\ IF "message" \in DOMAIN b
                             THEN /\ u.orderStatus = "Rejected"
                                  /\ "cancelRejected" \in DOMAIN u
                                  /\ u.cancelRejected = TRUE
                                  /\ u.rejectMessage = b.message
                             ELSE /\ u.orderStatus = "Cancelled"
                                  /\ "cancelRejected" \notin DOMAIN u
           ELSE StatusBy(c) = {}

\* C8 witness: one cancelOrder rejected by the venue, another cancelled.
C8_Witness ==
    \E c, d \in CallsOf({"cancel"}) :
        /\ calls[c].state = "resolved"
        /\ calls[d].state = "resolved"
        /\ "message" \in DOMAIN calls[c].resp.data
        /\ "message" \notin DOMAIN calls[d].resp.data

\* the trade polls whose response onTrades has processed
TradeBatches ==
    {i \in 1..Len(gets) :
        gets[i].path = "trades.json" /\ gets[i].outcome.kind = "body"}
\* no trade batch was processed before batch i
ProcessedFirst(i) ==
    /\ i \in TradeBatches
    /\ \A j \in TradeBatches : gets[i].outcome.seq <= gets[j].outcome.seq
EmittedOf(i) == SelectSeq(trades, LAMBDA t : t.req = i)

\* C9: every trade of the trade batch processed first is tagged
\* isFirstObservedBatch, every trade of a batch processed later is not, and
\* a cursor that has been set is never unset.
C9_FirstBatchOnly ==
    /\ [](\A k \in 1..Len(trades) :
            trades[k].isFirstObservedBatch = ProcessedFirst(trades[k].req))
    /\ [][since # <<>> => since' # <<>>]_vars

\* C9 witness: two overlapping trade polls, both with trades, the response
\* of the later poll processed before that of the earlier one.
C9_Witness ==
    \E i, j \in TradeBatches :
        /\ i < j
        /\ gets[j].outcome.seq < gets[i].outcome.seq
        /\ Len(EmittedOf(i)) > 0
        /\ Len(EmittedOf(j)) > 0

\* C10 as stated: every trade of a response is emitted, tagged by whether
\* the cursor was unset when the tick that fetched it fired.
C10_TaggedAtTick ==
    /\ \A i \in TradeBatches :
          /\ Len(EmittedOf(i)) = Len(gets[i].outcome.data.items)
          /\ \A k \in 1..Len(EmittedOf(i)) :
                EmittedOf(i)[k].id = gets[i].outcome.data.items[k].id
    /\ \A k \in 1..Len(trades) :
          trades[k].isFirstObservedBatch = gets[trades[k].req].cold

\* C10 amended: every trade of a response is emitted, in response order,
\* tagged by whether the cursor was unset when the response was processed:
\* of two polls that fired cold, only the one processed first is tagged.
C10_TaggedAtProcessing ==
    /\ \A i \in TradeBatches :
          /\ Len(EmittedOf(i)) = Len(gets[i].outcome.data.items)
          /\ \A k \in 1..Len(EmittedOf(i)) :
                EmittedOf(i)[k].id = gets[i].outcome.data.items[k].id
    /\ \A i \in TradeBatches :
          \A k \in 1..Len(EmittedOf(i)) :
              EmittedOf(i)[k].isFirstObservedBatch = ProcessedFirst(i)
    /\ \A i, j \in TradeBatches :
          (gets[i].cold /\ gets[j].cold
              /\ gets[i].outcome.seq < gets[j].outcome.seq) =>
             \A k \in 1..Len(EmittedOf(j)) :
                 ~EmittedOf(j)[k].isFirstObservedBatch

\* C10 witness: two polls that fired cold, both answered with two trades.
C10_Witness ==
    \E i, j \in TradeBatches :
        /\ i # j
        /\ gets[i].cold /\ gets[j].cold
        /\ Len(EmittedOf(i)) = 2
        /\ Len(EmittedOf(j)) = 2

\* the requests of the pollers that ended in a network error or in a body
\* that does not parse
FailedGets ==
    {i \in 1..Len(gets) : gets[i].outcome.kind \in {"error", "unparsable"}}
PollCalls == {c \in 1..Len(calls) : calls[c].op \in {"mytrades", "order", "positions"}}
FailedPollCalls == {c \in PollCalls : calls[c].state = "rejected"}

\* C11: a trade poll that ends in a network error or in an unparsable body
\* leaves the trade cursor as it was and leaves the poller running, so that
\* its next tick fires and queries with that same cursor.
C11_FailedTradeTickRetried ==
    [][\A i \in 1..Len(gets) :
          (/\ gets[i].path = "trades.json"
           /\ gets[i].outcome.kind = "pending"
           /\ gets'[i].outcome.kind \in {"error", "unparsable"})
          => (since' = since /\ ~exited')]_vars

\* C12: a poll of any poller that ends in a transport error raises no
\* uncaught exception and leaves every poller running.
C12_TickFailureSwallowed ==
    /\ \A c \in FailedPollCalls : <<"post", c>> \notin faults
    /\ \A i \in FailedGets : <<"get", i>> \notin faults
    /\ (FailedPollCalls # {} \/ FailedGets # {}) => ~exited

\* the reconciliation ticks, and whether tick d is the one that follows tick c
ReconTicks == {c \in 1..Len(calls) : calls[c].op = "mytrades"}
NextTick(c, d) ==
    /\ c \in ReconTicks /\ d \in ReconTicks /\ c < d
    /\ \A e \in ReconTicks : ~(c < e /\ e < d)
LastTick(c) == c \in ReconTicks /\ \A e \in ReconTicks : e <= c

\* C13: the reconciliation cursor changes only when a my-trades response is
\* processed, and the tick that follows a failed my-trades poll queries with
\* the timestamp of the failed poll.
C13_CursorKeptOnFailure ==
    [][/\ oeSince' # oeSince =>
            \E c \in ReconTicks :
                calls[c].state = "pending" /\ calls'[c].state = "resolved"
       /\ \A c \in ReconTicks :
            (/\ LastTick(c)
             /\ calls[c].state = "rejected"
             /\ Len(calls') = Len(calls) + 1
             /\ calls'[Len(calls')].op = "mytrades")
            => calls'[Len(calls')].msg.timestamp = calls[c].msg.timestamp]_vars

\* C14: at every moment after a reconciliation tick, whatever has become of
\* its my-trades poll and of its order detail polls, the cursor is the time
\* at which the latest tick issued its request, and each tick queries with
\* the time at which the tick before it issued its request (the first one
\* with the time of construction).
C14_CursorIsIssueTime ==
    /\ \A c \in ReconTicks : LastTick(c) => oeSince = calls[c].at
    /\ \A c, d \in ReconTicks :
          NextTick(c, d) => calls[d].msg.timestamp = calls[c].at
    /\ \A d \in ReconTicks :
          (\A c \in ReconTicks : d <= c) => calls[d].msg.timestamp = 0

\* C14 witness: a tick whose my-trades poll failed, issued later than
\* construction, followed by a tick that queries with a later timestamp
\* than the failed poll did.
C14_Witness ==
    \E c, d \in ReconTicks :
        /\ NextTick(c, d)
        /\ calls[c].state = "rejected"
        /\ calls[c].at > 0
        /\ calls[d].msg.timestamp > calls[c].msg.timestamp

\* C15: no step lowers the cursor of the reconciliation poller, and no step
\* lowers or unsets the cursor of the trade poller once it is set, whatever
\* the order in which ticks fire and responses and failures arrive.
C15_CursorsNeverDecrease ==
    [][/\ oeSince' >= oeSince
       /\ since # <<>> => (since' # <<>> /\ since'[1] >= since[1])]_vars

\* C15 witness: two overlapping trade polls whose responses were processed
\* in the reverse of their issue order and at different times, next to a
\* reconciliation tick that has moved its cursor.
C15_Witness ==
    /\ oeSince > 0
    /\ \E i, j \in 1..Len(gets) :
          /\ i < j
          /\ gets[i].path = "trades.json" /\ gets[j].path = "trades.json"
          /\ gets[i].outcome.kind = "body" /\ gets[j].outcome.kind = "body"
          /\ gets[j].outcome.seq < gets[i].outcome.seq
          /\ gets[j].outcome.time < gets[i].outcome.time

\* the order detail polls, and the fills the processed my-trades responses
\* have returned, each with the tick and the place it was returned at
DetailPolls == {d \in 1..Len(calls) : calls[d].op = "order"}
ReturnedFills ==
    {<<c, k>> \in ReconTicks \X (1..2) :
        /\ calls[c].state = "resolved"
        /\ k <= Len(calls[c].resp.data.items)}
FillAt(ck) == calls[ck[1]].resp.data.items[ck[2]]

C17_StatusMapping ==
    \A d \in DetailPolls :
        calls[d].state = "resolved" =>
            /\ <<"post", d>> \notin faults
            /\ StatusBy(d) # {}
            /\ \A j \in StatusBy(d) :
                  LET detail == calls[d].resp.data IN
                  updates[j].orderStatus =
                      IF "state" \notin DOMAIN detail THEN "Other"
                      ELSE IF detail.state = "wait" THEN "Working"
                      ELSE IF detail.state = "cancel" THEN "Cancelled"
                      ELSE IF detail.state = "done" THEN "Complete"
                      ELSE "Other"

\* C17 witness: an order detail without a state has been reported.
C17_Witness ==
    \E d \in DetailPolls :
        /\ calls[d].state = "resolved"
        /\ "state" \notin DOMAIN calls[d].resp.data
        /\ \E j \in StatusBy(d) : updates[j].orderStatus = "Other"

\* the order book polls whose response onMarketData has processed, and the
\* levels of a response as the book reports them
BookBatches ==
    {i \in 1..Len(gets) :
        gets[i].path = "order_book.json" /\ gets[i].outcome.kind = "body"}
SidesOf(levels) ==
    [n \in 1..Len(levels) |->
        [price |-> parseFloat(levels[n].price),
         size |-> parseFloat(levels[n].volume)]]

\* C18: the books emitted are, one for one and in the order the responses
\* were processed, the processed order book responses; each book has the
\* bid and ask levels of its own response, in the order of the response,
\* and no others, and the time at which the response was received.
C18_BookIsResponse ==
    /\ Len(books) = Cardinality(BookBatches)
    /\ \A k \in 1..Len(books) :
          /\ books[k].req \in BookBatches
          /\ books[k].bids = SidesOf(gets[books[k].req].outcome.data.bids)
          /\ books[k].asks = SidesOf(gets[books[k].req].outcome.data.asks)
          /\ books[k].time = gets[books[k].req].outcome.time
    /\ \A k, l \in 1..Len(books) :
          k < l => gets[books[k].req].outcome.seq < gets[books[l].req].outcome.seq

\* C18 witness: two books emitted, the earlier with a bid and the later,
\* received at a later time, with none and with two asks.
C18_Witness ==
    \E k, l \in 1..Len(books) :
        /\ k < l
        /\ Len(books[k].bids) = 1
        /\ Len(books[l].bids) = 0
        /\ Len(books[l].asks) = 2
        /\ books[k].time < books[l].time

\* C19: the nonce is the seed plus the number of signed attempts issued so
\* far; each signed attempt, first or retry, carries the nonce as its tonce
\* and raises it by one; a step that issues no signed attempt (a get, the
\* arrival of a response or of a failure) leaves it as it was.
C19_NonceFrame ==
    /\ [](nonce = NonceSeed + Len(reqs))
    /\ [][/\ Len(reqs') >= Len(reqs)
          /\ nonce' = nonce + (Len(reqs') - Len(reqs))
          /\ \A k \in 1..(Len(reqs') - Len(reqs)) :
                reqs'[Len(reqs) + k].tonce = nonce + k - 1
          /\ (gets' # gets \/ Len(reqs') = Len(reqs)) => nonce' = nonce]_vars

\* C19 witness: a first attempt and a retry have been signed, a get has been
\* issued since construction, one get has been answered and one has failed.
C19_Witness ==
    /\ \E i, j \in 1..Len(reqs) : reqs[i].parent = 0 /\ reqs[j].parent # 0
    /\ Len(gets) > 2
    /\ \E i, j \in 1..Len(gets) :
          /\ gets[i].outcome.kind = "body"
          /\ gets[j].outcome.kind \in {"error", "unparsable"}
    /\ nonce > NonceSeed + 1

\* the signed attempts that ended in a network error or an unparsable body
FailedAttempts ==
    {i \in 1..Len(reqs) : reqs[i].outcome.kind \in {"error", "unparsable"}}

\* C20: a request, signed or not, that ends in a network error or in an
\* unparsable body rejects its promise, and the step in which it does sends
\* no request and emits no event; a signed attempt is sent again only after
\* a stale-nonce answer, and no get is ever sent again.
C20_OnlyStaleResends ==
    /\ [](/\ \A i \in FailedAttempts :
               RetriesOf(i) = {} /\ calls[reqs[i].call].state = "rejected"
          /\ \A j \in 1..Len(reqs) :
               reqs[j].parent # 0 =>
                  /\ reqs[reqs[j].parent].outcome.kind = "body"
                  /\ CarriesStaleText(reqs[reqs[j].parent].outcome.data)
          /\ \A c \in 1..Len(calls) :
               Cardinality({i \in AttemptsOf(c) : reqs[i].parent = 0}) = 1)
    /\ [][(\/ \E i \in 1..Len(reqs) :
                 /\ reqs[i].outcome.kind = "pending"
                 /\ reqs'[i].outcome.kind \in {"error", "unparsable"}
           \/ \E i \in 1..Len(gets) :
                 /\ gets[i].outcome.kind = "pending"
                 /\ gets'[i].outcome.kind \in {"error", "unparsable"})
          => /\ Len(reqs') = Len(reqs) /\ Len(gets') = Len(gets)
             /\ UNCHANGED <<updates, posOut, trades, books, nonce>>]_vars

\* C20 witness: a signed attempt and a get have both failed, the one with a
\* network error and the other with an unparsable body, and another signed
\* attempt was sent again after a stale-nonce answer.
C20_Witness ==
    /\ \E i \in FailedAttempts : \E j \in FailedGets :
          reqs[i].outcome.kind # gets[j].outcome.kind
    /\ \E j \in 1..Len(reqs) : reqs[j].parent # 0

\* C21: every signed attempt signs the text
\* METHOD|/api/v2<path>|access_key=<key>&tonce=<nonce>&<query> and is sent to
\* a URL that carries the same access key, nonce and query and ends in
\* &signature=<digest>.
C21_SignedPayloadAndUrl ==
    \A i \in 1..Len(reqs) :
        /\ reqs[i].payload =
              <<reqs[i].method, "|", "/", "api/v2", reqs[i].path, "|",
                "access_key=", "<key>", "&", "tonce=", "<nonce>", "&", "<query>">>
        /\ reqs[i].url =
              <<"<base>", "/", reqs[i].path, "?",
                "access_key=", "<key>", "&", "tonce=", "<nonce>", "&", "<query>",
                "&", "signature", "=", "<digest>">>

\* C22: a replaceOrder issues exactly two signed requests, first the cancel
\* and then the create, both first attempts, the cancel with the smaller
\* tonce.  A step is a replaceOrder when it posts a cancel and, with it,
\* either posts a second call or throws.
C22_ReplaceIsCancelThenSubmit ==
    [][(/\ Len(calls') > Len(calls)
        /\ calls'[Len(calls) + 1].op = "cancel"
        /\ (Len(calls') = Len(calls) + 2 \/ thrown' # thrown))
       => /\ Len(calls') = Len(calls) + 2
          /\ calls'[Len(calls) + 2].op = "send"
          /\ calls'[Len(calls) + 2].arg = calls'[Len(calls) + 1].arg
          /\ Len(reqs') = Len(reqs) + 2
          /\ reqs'[Len(reqs) + 1].call = Len(calls) + 1
          /\ reqs'[Len(reqs) + 2].call = Len(calls) + 2
          /\ reqs'[Len(reqs) + 1].parent = 0
          /\ reqs'[Len(reqs) + 2].parent = 0
          /\ reqs'[Len(reqs) + 1].tonce < reqs'[Len(reqs) + 2].tonce]_vars

C24_ConnectedOnceAfterConstruction ==
    /\ timer = "pending" => \A g \in DOMAIN conn : conn[g] = <<>>
    /\ timer = "fired" => \A g \in DOMAIN conn : conn[g] = <<"Connected">>

\* C24 witness: Connected has been announced, and a signed request and a
\* get have failed.
C24_Witness ==
    /\ timer = "fired"
    /\ conn["http"] = <<"Connected">>
    /\ FailedAttempts # {}
    /\ FailedGets # {}

\* the accounts of a members/me.json response
AccountsOf(resp) ==
    IF "accounts" \in DOMAIN resp.data THEN resp.data.accounts ELSE <<>>

\* C25: a position tick issues one signed call; when the call succeeds one
\* position update per account of the response is emitted, in the order of
\* the response; when it fails nothing is emitted and the poller goes on, so
\* that its later ticks fire.
C25_PositionTick ==
    [][\A c \in 1..Len(calls) :
          calls[c].op = "positions" =>
            /\ (calls[c].state = "pending" /\ calls'[c].state = "resolved") =>
                  LET accounts == AccountsOf(calls'[c].resp) IN
                  /\ Len(posOut') = Len(posOut) + Len(accounts)
                  /\ \A k \in 1..Len(accounts) :
                        /\ posOut'[Len(posOut) + k].currency = accounts[k].currency
                        /\ posOut'[Len(posOut) + k].amount = parseFloat(accounts[k].balance)
                        /\ posOut'[Len(posOut) + k].heldAmount = parseFloat(accounts[k].locked)
            /\ (calls[c].state = "pending" /\ calls'[c].state = "rejected") =>
                  (posOut' = posOut /\ ~exited')]_vars

\* C26: the gateway declares that it has no bulk cancel and that it cancels
\* by exchange id; every cancelAllOpenOrders resolves with 0 and sends no
\* request, emits no update and leaves the nonce as it was; every cancel
\* request carries the exchange id of the report it was called with.
C26_BulkCancelUnsupported ==
    /\ [](/\ ~supportsCancelAllOpenOrders
          /\ ~cancelsByClientOrderId
          /\ \A k \in 1..Len(bulk) : bulk[k] = 0
          /\ \A c \in 1..Len(calls) :
                calls[c].op = "cancel" =>
                    calls[c].msg = [id |-> calls[c].arg.exchangeId])
    /\ [][bulk' # bulk =>
            /\ Len(bulk') = Len(bulk) + 1
            /\ UNCHANGED <<reqs, calls, gets, updates, posOut, nonce>>]_vars

\* C26 witness: a bulk cancel made after a cancel by exchange id, whose
\* request is still in flight, has resolved with 0.
C26_Witness ==
    /\ bulk = <<0>>
    /\ \E i \in 1..Len(reqs) :
          /\ calls[reqs[i].call].op = "cancel"
          /\ calls[reqs[i].call].msg = [id |-> "e1"]
          /\ reqs[i].outcome.kind = "pending"

\* C27: when no entry of the market list has the id of the configured
\* symbol, createChankura fails: no transport and no gateway exists and no
\* request of any kind is ever issued; when an entry matches, the connector
\* is built from the first such entry, and is not built a second time.
C27_SymbolResolution ==
    /\ [](LET l == startup.list
              m == {k \in 1..Len(l) : l[k].id = "btcusd"}
          IN  /\ startup.phase = "resolving" =>
                    reqs = <<>> /\ calls = <<>> /\ gets = <<>> /\ timer = "none"
              /\ (m = {} /\ startup.phase # "resolving") =>
                    /\ startup.phase = "failed"
                    /\ reqs = <<>> /\ calls = <<>> /\ gets = <<>>
                    /\ timer = "none" /\ nonce = 0
                    /\ conn = [http |-> <<>>, oe |-> <<>>, md |-> <<>>]
              /\ (m # {} /\ startup.phase # "resolving") =>
                    /\ startup.phase = "built"
                    /\ startup.entry \in m
                    /\ \A j \in m : startup.entry <= j
                    /\ startup.ticks = 10 ^ l[startup.entry].price_precision)
    /\ [][startup.phase # "resolving" => startup' = startup]_vars

\* C27 witness: the market list has entries, none of them with the id of
\* the configured symbol, and createChankura has failed.
C27_Witness ==
    /\ startup.phase = "failed"
    /\ Len(startup.list) = 2
    /\ \A k \in 1..Len(startup.list) : startup.list[k].id # "btcusd"

\* the dispatches in which a listener threw
Thrown == {k \in 1..Len(dispatched) : dispatched[k].threw}
Invoked(k) == {dispatched[k].inv[j] : j \in 1..Len(dispatched[k].inv)}
AtStart(k) == {dispatched[k].start[j] : j \in 1..Len(dispatched[k].start)}

\* C28: a listener that throws is isolated: the other listeners of the
\* dispatch are still invoked, every trade of a processed batch is emitted
\* and the batch sets the trade cursor.
C28_ThrowingListenerIsolated ==
    /\ \A k \in Thrown : AtStart(k) \subseteq Invoked(k)
    /\ \A i \in TradeBatches :
          /\ Len(SelectSeq(trades, LAMBDA t : t.req = i))
                = Len(gets[i].outcome.data.items)
          /\ since # <<>>

\* C29: a dispatch in which no listener throws invokes every handler that
\* was registered at its start once per registration, in registration
\* order, whatever the handlers register or unregister meanwhile; and off(h)
\* leaves no registration of h for a later dispatch to invoke.
C29_DispatchOverSnapshot ==
    /\ [](\A k \in 1..Len(dispatched) :
            ~dispatched[k].threw =>
                /\ Len(dispatched[k].inv) >= Len(dispatched[k].start)
                /\ SubSeq(dispatched[k].inv, 1, Len(dispatched[k].start))
                      = dispatched[k].start)
    /\ [][\A h \in Listeners :
            MarketTradeOff(h) =>
                \A j \in 1..Len(handlers') : handlers'[j] # h]_vars

\* the second part of C29 alone
C29_OffRemovesAll ==
    [][\A h \in Listeners :
            MarketTradeOff(h) =>
                \A j \in 1..Len(handlers') : handlers'[j] # h]_vars

\* venue trade k was triggered on the trade channel
Emitted(k) == \E j \in 1..Len(trades) : trades[j].id = k
\* venue trade k will be in the answer of a request yet to be processed,
\* or of the next request, made with the cursor
StillCovered(k) ==
    \/ since = <<>> /\ now - 60 <= venue[k]
    \/ since # <<>> /\ since[1] <= venue[k]
    \/ \E i \in 1..Len(gets) :
          /\ gets[i].path = "trades.json"
          /\ gets[i].outcome.kind = "pending"
          /\ gets[i].qs.timestamp <= venue[k]
          /\ \A b \in 1..Len(inflight) :
                inflight[b].get = i =>
                    \E j \in 1..Len(inflight[b].items) :
                        inflight[b].items[j].id = k

\* C30: no venue trade is skipped: a trade executed at or after the
\* timestamp of the first trades query has been emitted, or is still to be
\* returned, by a request that awaits its answer or by the next request.
C30_NoTradeSkipped ==
    \A k \in 1..Len(venue) :
        venue[k] >= gets[2].qs.timestamp => Emitted(k) \/ StillCovered(k)


====
